---- MODULE Spec2Model ----
(***************************************************************************)
(* Data synchronisation layer of the swish client: the screens' query      *)
(* hooks (useQuery / useInfiniteQuery of @tanstack/react-query v5), the    *)
(* process-wide QueryClient configured in app/_layout.tsx, the             *)
(* dependent-query and pagination wiring of the games, detail, team and    *)
(* news screens, and the API service the query functions call              *)
(* (apiRequest, parseResponse, formatDateForAPI).                          *)
(*                                                                         *)
(* A behaviour follows one subject (one player, team or game id, or the    *)
(* news feed).  scn names the parent query and one dependent query of the  *)
(* screen; the other dependents of the same screen evolve independently of *)
(* the pair (queries interact only through the parent's data feeding the   *)
(* `enabled` option), so the pair is an exact projection of the screen.    *)
(*                                                                         *)
(* Cache entries are never garbage collected here: gcTime (5 minutes by    *)
(* default) is far beyond the time horizon of the model.                   *)
(***************************************************************************)
EXTENDS Integers, Sequences, FiniteSets, TLC

VARIABLES
  scn,      \* the screen and its query pair followed by this behaviour
  now,      \* Date.now(), in milliseconds
  q,        \* the query cache: key -> QueryEntry
  job,      \* key -> the running fetch (retryer) of the entry, or NoJob
  zombies,  \* requests of silently cancelled fetches, still on the network
  mounted,  \* screen -> is the component mounted
  opt,      \* role -> the `enabled` option the observer got at the last render
  view,     \* role -> what the component rendered last
  mounts,   \* number of mounts so far
  presses,  \* number of user gestures (load more, refresh, retry) so far
  ev,       \* the last step: its kind, the network requests it issued, the page
            \* whose response the request of a paginated query was derived from,
            \* and the outcome of the request that ended in it
  call      \* a call of the API service followed on its own: its arguments and
            \* what it settled with

vars == <<scn, now, q, job, zombies, mounted, opt, view, mounts, presses, ev, call>>

-----------------------------------------------------------------------------
(* Bounds of the model *)

TickMs == 2500
\* the page numbers in the pagination metadata given to getNextPageParam
MaxPageNumber == 3
\* the calendar dates given to formatDateForAPI run over these years
FirstYear == 2024
LastYear == 2027
MaxTicks == 2
MaxMounts == 2
MaxPress == 2
MaxServerPages == 2

-----------------------------------------------------------------------------
(* Values *)

\* JavaScript's undefined; every other value of a query is a record too
Undefined == [undefined |-> TRUE]
Null == [null |-> TRUE]
\* the `error` of a query that has not failed
NoError == Null
NoJob == [phase |-> "none"]
\* a number, as a value that may also be undefined
Num(n) == [n |-> n]
\* what a function that throws ends with
Throw(error) == [thrown |-> error]
Bool(b) == [b |-> b]
Str(s) == [s |-> s]

\* obj.field: a property that is not there reads as undefined
Get(obj, field) == IF field \in DOMAIN obj THEN obj[field] ELSE Undefined

\* new Error(message), and the errors the runtime throws
Error(message) == [name |-> "Error", message |-> message]
TypeError(message) == [name |-> "TypeError", message |-> message]
SyntaxError(message) == [name |-> "SyntaxError", message |-> message]

\* gameStatus values: 1 scheduled, 3 finished (the status that enables the summary)
GameStatuses == {Num(1), Num(3)}

\* two server snapshots of an opaque payload
Versions == {"v1", "v2"}

\* item lists of one page, in server order
PageItems == {<<>>, <<2, 1>>}

\* `!!value`, and the test of `value || other` and `cond && value`
Truthy(value) == value \notin {Undefined, Null, Bool(FALSE), Str(""), Num(0)}

-----------------------------------------------------------------------------
(* Faulty variants of some definitions below; each property is shown to    *)
(* fail when one of them takes the place of the definition it varies       *)

\* the performance card asking under a key of its own
C1_OtherKey == "playerDetails"
\* a dependent that does not wait for the player's details
enabledPlayer_always(details) == TRUE
\* a dependent that is never enabled
enabledTeam_never(overview) == FALSE
\* a cache that keeps its entries fresh for 10 s
staleTime_doubled == 2 * 5000
\* a client that retries three times
retry_thrice == 1 + 2
\* a midnight taken eight hours west of Greenwich
ChinaOffsetHours_west == 0 - 8
\* an HTTP failure reported without its status
HttpMessage_bare(status, statusText) == Str("HTTP error")
\* endpoints that all take the unwrapped data
returnFullResponse_never(fn) == FALSE
\* an error envelope read without a default message
ApiErrorMessage_raw(error) == Get(error, "message")
\* an error reducer that ends the fetch and forgets the failure
OnError_forget(e, error) == [e EXCEPT !.fetchStatus = "idle"]
\* a retryer that gives up on a rate-limited request
shouldRetry_unlessRateLimited(failureCount, error) ==
  failureCount < 1 /\ error # Error(Str("Too many requests, please try again later"))
\* a news queryFn that ignores its pageParam
NewsQueryFn_firstPage(pageParam) == [fn |-> "fetchNews", page |-> Num(1)]
\* a list that renders the first page only
flatMap_firstPage(pages) == IF pages = <<>> THEN <<>> ELSE Head(pages).items
\* an observer that fetches on every mount
shouldFetchOnMount_always(e, enabled) == enabled
\* an error reducer that drops the data
OnError_discard(e, error) ==
  [e EXCEPT !.status = "error", !.fetchStatus = "idle", !.error = error, !.data = Undefined]

-----------------------------------------------------------------------------
(* app/_layout.tsx: defaultOptions of the QueryClient *)

staleTime == 5000
retry == 1

-----------------------------------------------------------------------------
(* The screens' hooks *)

\* app/player/[id].tsx
enabledPlayer(details) == Truthy(details)

\* app/team/[id].tsx
enabledTeam(overview) == Truthy(overview)

\* app/game/[id].tsx
enabledSummary(game) == Truthy(game) /\ Get(game, "gameStatus") = Num(3)

\* key of the player performance card's query
CardQueryKey == "gameDetail"

PlayerDependents ==
  { [key |-> "playerBio", fn |-> "fetchPlayerBio"],
    [key |-> "playerCurrentStats", fn |-> "fetchPlayerCurrentStats"],
    [key |-> "playerRegularStats", fn |-> "fetchPlayerRegularStats"],
    [key |-> "playerGameLog", fn |-> "fetchPlayerGameLog"] }

TeamDependents ==
  { [key |-> "teamLeaders", fn |-> "fetchTeamLeaders", kind |-> "plain"],
    [key |-> "teamSchedule", fn |-> "fetchTeamSchedule", kind |-> "infinite"],
    [key |-> "teamRecentGames", fn |-> "fetchTeamRecentGames", kind |-> "plain"] }

PlayerDetailScreen ==
  { [screen |-> "player", second |-> "none",
     pKey |-> "playerDetails", pFn |-> "fetchPlayerDetails",
     dKey |-> d.key, dFn |-> d.fn, kind |-> "plain", gate |-> "details",
     sKey |-> "none", sFn |-> "none"] : d \in PlayerDependents }

TeamDetailScreen ==
  { [screen |-> "team", second |-> "none",
     pKey |-> "teamOverview", pFn |-> "fetchTeamOverview",
     dKey |-> d.key, dFn |-> d.fn, kind |-> d.kind, gate |-> "overview",
     sKey |-> "none", sFn |-> "none"] : d \in TeamDependents }

\* the game screen, with the player performance card as second consumer of gameDetail
GameDetailScreen ==
  { [screen |-> "game", second |-> "card",
     pKey |-> "gameDetail", pFn |-> "fetchGameDetail",
     dKey |-> "gameSummary", dFn |-> "fetchGameSummary", kind |-> "plain", gate |-> "summary",
     sKey |-> CardQueryKey, sFn |-> "fetchGameDetail"] }

NewsScreen ==
  { [screen |-> "news", second |-> "none",
     pKey |-> "none", pFn |-> "none",
     dKey |-> "news", dFn |-> "fetchNews", kind |-> "infinite", gate |-> "always",
     sKey |-> "none", sFn |-> "none"] }

\* app/index.tsx: the games of the selected date
GamesScreen ==
  { [screen |-> "games", second |-> "none",
     pKey |-> "none", pFn |-> "none",
     dKey |-> "games", dFn |-> "fetchGames", kind |-> "plain", gate |-> "always",
     sKey |-> "none", sFn |-> "none"] }

DetailScreens == PlayerDetailScreen \cup TeamDetailScreen \cup GameDetailScreen
PagedScreens == NewsScreen \cup {s \in TeamDetailScreen : s.kind = "infinite"}
\* the screens with pull-to-refresh
RefreshScreens == GamesScreen \cup NewsScreen
AllScreens == DetailScreens \cup NewsScreen \cup GamesScreen

\* every query key some hook uses
Keys == UNION {{s.pKey, s.dKey, s.sKey} : s \in AllScreens} \ {"none"}

Screens == {"player", "team", "game", "card", "news", "games"}
Roles == {"P", "D", "S"}

RoleKey(r) == CASE r = "P" -> scn.pKey [] r = "D" -> scn.dKey [] OTHER -> scn.sKey
RoleFn(r) == CASE r = "P" -> scn.pFn [] r = "D" -> scn.dFn [] OTHER -> scn.sFn
RoleScreen(r) == IF r = "S" THEN scn.second ELSE scn.screen
RoleKind(r) == IF r = "D" THEN scn.kind ELSE "plain"
ActiveRoles == {r \in Roles : RoleKey(r) # "none"}
\* the hooks of a screen, in the order the component calls them
HooksOf(s) ==
  IF s = scn.screen
    THEN (IF scn.pKey # "none" THEN <<"P">> ELSE <<>>) \o <<"D">>
    ELSE IF s = scn.second /\ s # "none" THEN <<"S">> ELSE <<>>
ScreensOf == {scn.screen} \cup (IF scn.second # "none" THEN {scn.second} ELSE {})

\* the `enabled` option of a hook, computed during render from the parent's data
EnabledOf(r, cache) ==
  IF r # "D" THEN TRUE
  ELSE CASE scn.gate = "details" -> enabledPlayer(cache[scn.pKey].data)
         [] scn.gate = "overview" -> enabledTeam(cache[scn.pKey].data)
         [] scn.gate = "summary" -> enabledSummary(cache[scn.pKey].data)
         [] OTHER -> TRUE

-----------------------------------------------------------------------------
(* Pagination call sites *)

\* app/news.tsx: queryFn of the news feed
NewsQueryFn(pageParam) ==
  [fn |-> "fetchNews", page |-> IF pageParam = Undefined THEN Num(1) ELSE pageParam]

\* value?.field: undefined when the value is null or undefined
OptionalGet(obj, field) == IF obj \in {Undefined, Null} THEN Undefined ELSE Get(obj, field)

\* app/news.tsx: getNextPageParam of the news feed
NewsGetNextPageParam(lastPage) ==
  LET pagination == OptionalGet(OptionalGet(lastPage, "meta"), "pagination")
  IN IF Truthy(OptionalGet(pagination, "hasMore")) THEN Get(pagination, "nextPage")
     ELSE Undefined

\* app/team/[id].tsx: queryFn of the team schedule (fetchTeamSchedule defaults page to 1)
ScheduleQueryFn(pageParam) ==
  [fn |-> "fetchTeamSchedule", page |-> IF pageParam = Undefined THEN Num(1) ELSE pageParam]

\* faulty variant: a schedule that asks for one page beyond the last
ScheduleGetNextPageParam_inclusive(lastPage) ==
  LET pagination == OptionalGet(OptionalGet(lastPage, "meta"), "pagination")
  IN IF pagination \in {Undefined, Null} THEN Undefined
     ELSE IF pagination.page.n <= pagination.pages.n THEN Num(pagination.page.n + 1)
     ELSE Undefined

\* app/team/[id].tsx: getNextPageParam of the team schedule; destructuring a
\* missing meta and reading a property of a missing pagination throw
ScheduleGetNextPageParam(lastPage) ==
  LET meta == Get(lastPage, "meta")
      pagination == Get(meta, "pagination")
  IN IF meta \in {Undefined, Null}
       THEN Throw(TypeError(Str("Cannot destructure property 'pagination' of 'lastPage.meta'")))
     ELSE IF pagination \in {Undefined, Null}
       THEN Throw(TypeError(Str("Cannot read property 'page' of undefined")))
     ELSE IF pagination.page.n < pagination.pages.n THEN Num(pagination.page.n + 1)
     ELSE Undefined

initialPageParam == Num(1)

queryFn(fn, kind, pageParam) ==
  IF kind = "plain" THEN [fn |-> fn, page |-> Undefined]
  ELSE IF fn = "fetchNews" THEN NewsQueryFn(pageParam) ELSE ScheduleQueryFn(pageParam)

getNextPageParam(fn, lastPage) ==
  IF fn = "fetchNews" THEN NewsGetNextPageParam(lastPage) ELSE ScheduleGetNextPageParam(lastPage)

\* hasNextPage of the infinite query result
hasNextPage(fn, data) ==
  /\ data # Undefined
  /\ Len(data.pages) > 0
  /\ getNextPageParam(fn, data.pages[Len(data.pages)]) # Undefined

RECURSIVE flatMap(_)
\* pages.flatMap(page => page.data.tweets || []) and pages.flatMap(page => page.data.events || [])
flatMap(pages) ==
  IF pages = <<>> THEN <<>> ELSE Head(pages).items \o flatMap(Tail(pages))

-----------------------------------------------------------------------------
(* The API service (apiRequest, parseResponse and the endpoints)            *)

\* what an async function settles with: the value it resolves to or the error it
\* rejects with
Resolve(value) == [ok |-> TRUE, data |-> value, error |-> NoError]
Reject(error) == [ok |-> FALSE, data |-> Undefined, error |-> error]

\* what fetch() settles with: a response with a status line and a body, or no
\* response at all
HttpResponse(status, statusText, body) ==
  [status |-> status, statusText |-> statusText, body |-> body]
NetworkFailure == [failed |-> TRUE]
\* a body that is not JSON
InvalidJSON == [invalidJSON |-> TRUE]

\* response.ok
ok(response) == response.status \in 200..299

\* response.json(); reading a property of a null body throws afterwards
json(response) ==
  IF response.body = InvalidJSON THEN Reject(SyntaxError(Str("JSON Parse error")))
  ELSE IF response.body = Null THEN Reject(TypeError(Str("null is not an object")))
  ELSE Resolve(response.body)

\* `HTTP ${response.status}: ${response.statusText}`
HttpMessage(status, statusText) ==
  [template |-> "HTTP ${status}: ${statusText}", status |-> status, statusText |-> statusText]

\* data.error.message || 'API error'
ApiErrorMessage(error) ==
  IF Truthy(Get(error, "message")) THEN Get(error, "message") ELSE Str("API error")

parseResponse(response) ==
  LET parsed == json(response)
      data == parsed.data
  IN IF ~parsed.ok THEN parsed
     ELSE IF Get(data, "success") = Bool(TRUE) THEN Resolve(Get(data, "data"))
     ELSE IF Get(data, "success") = Bool(FALSE) /\ Truthy(Get(data, "error"))
       THEN Reject(Error(ApiErrorMessage(Get(data, "error"))))
     ELSE IF Get(data, "success") = Undefined THEN Resolve(data)
     ELSE Reject(Error(Str("Invalid API response format")))

\* faulty variant: the body is parsed before the status is looked at
apiRequest_parseFirst(response, returnFullResponse) ==
  IF response = NetworkFailure THEN Reject(TypeError(Str("Network request failed")))
  ELSE IF ~json(response).ok THEN json(response)
  ELSE IF ~ok(response)
    THEN IF response.status = 429
           THEN Reject(Error(Str("Too many requests, please try again later")))
           ELSE Reject(Error(HttpMessage(response.status, response.statusText)))
  ELSE IF returnFullResponse
    THEN IF Get(json(response).data, "success") = Bool(FALSE)
              /\ Truthy(Get(json(response).data, "error"))
           THEN Reject(Error(ApiErrorMessage(Get(json(response).data, "error"))))
           ELSE json(response)
  ELSE parseResponse(response)

apiRequest(response, returnFullResponse) ==
  IF response = NetworkFailure THEN Reject(TypeError(Str("Network request failed")))
  ELSE IF ~ok(response)
    THEN IF response.status = 429
           THEN Reject(Error(Str("Too many requests, please try again later")))
           ELSE Reject(Error(HttpMessage(response.status, response.statusText)))
  ELSE IF returnFullResponse
    THEN LET parsed == json(response)
             data == parsed.data
         IN IF ~parsed.ok THEN parsed
            ELSE IF Get(data, "success") = Bool(FALSE) /\ Truthy(Get(data, "error"))
              THEN Reject(Error(ApiErrorMessage(Get(data, "error"))))
            ELSE Resolve(data)
  ELSE parseResponse(response)

\* whether apiRequest has called response.json(), itself or through
\* parseResponse: both calls come after the throw of `if (!response.ok)`
bodyUsed(response, returnFullResponse) ==
  IF response = NetworkFailure THEN FALSE
  ELSE IF ~ok(response) THEN FALSE
  ELSE TRUE

\* the endpoints that ask apiGet for the full response
returnFullResponse(fn) == fn \in {"fetchTeamSchedule", "fetchNews"}

\* apiGet as an endpoint calls it
apiGet(fn, response) == apiRequest(response, returnFullResponse(fn))

\* no call of the service is followed
NoCall == [op |-> "none"]
\* the call has not settled
Pending == [pending |-> TRUE]

-----------------------------------------------------------------------------
(* Dates: the JavaScript Date and Intl behaviour formatDateForAPI relies on *)

IsLeapYear(y) == (y % 4 = 0 /\ y % 100 # 0) \/ y % 400 = 0

DaysInMonth(y, m) ==
  IF m = 2 THEN (IF IsLeapYear(y) THEN 29 ELSE 28)
  ELSE IF m \in {4, 6, 9, 11} THEN 30 ELSE 31

\* days from 1970-01-01 to the civil date y-m-d (m in 1..12)
DaysFromCivil(y, m, d) ==
  LET yy == IF m <= 2 THEN y - 1 ELSE y
      era == yy \div 400
      yoe == yy - era * 400
      mp == (m + 9) % 12
      doy == (153 * mp + 2) \div 5 + d - 1
      doe == yoe * 365 + yoe \div 4 - yoe \div 100 + doy
  IN era * 146097 + doe - 719468

\* the civil date of a day number
CivilFromDays(z) ==
  LET zz == z + 719468
      era == zz \div 146097
      doe == zz - era * 146097
      yoe == (doe - doe \div 1460 + doe \div 36524 - doe \div 146096) \div 365
      doy == doe - (365 * yoe + yoe \div 4 - yoe \div 100)
      mp == (5 * doy + 2) \div 153
      d == doy - (153 * mp + 2) \div 5 + 1
      m == IF mp < 10 THEN mp + 3 ELSE mp - 9
      y == yoe + era * 400 + (IF m <= 2 THEN 1 ELSE 0)
  IN [year |-> y, month |-> m, day |-> d]

\* 0 is Sunday; 1970-01-01 was a Thursday
DayOfWeek(days) == (days + 4) % 7

\* the n-th Sunday of a month, as a day number
NthSunday(y, m, n) ==
  LET first == DaysFromCivil(y, m, 1)
  IN first + ((7 - DayOfWeek(first)) % 7) + (7 * (n - 1))

\* time zone America/New_York: UTC-4 from the second Sunday of March, 2:00 EST,
\* to the first Sunday of November, 2:00 EDT, and UTC-5 otherwise.  An instant is
\* a number of hours since 1970-01-01T00:00Z.
EasternOffsetHours(instant) ==
  LET y == CivilFromDays(instant \div 24).year
      start == NthSunday(y, 3, 2) * 24 + 7
      end == NthSunday(y, 11, 1) * 24 + 6
  IN IF start <= instant /\ instant < end THEN 0 - 4 ELSE 0 - 5

\* the "+08:00" of the date string
ChinaOffsetHours == 8

DigitChars == <<"0", "1", "2", "3", "4", "5", "6", "7", "8", "9">>

RECURSIVE String(_)
\* String(n) and `${n}` of a natural number
String(n) ==
  IF n < 10 THEN <<DigitChars[n + 1]>> ELSE Append(String(n \div 10), DigitChars[(n % 10) + 1])

RECURSIVE padStart(_, _, _)
\* str.padStart(targetLength, padString) with a pad of one character
padStart(str, targetLength, padString) ==
  IF Len(str) >= targetLength THEN str
  ELSE padStart(<<padString>> \o str, targetLength, padString)

RECURSIVE ToNumber(_)
\* the number a string of digits denotes
ToNumber(str) ==
  IF str = <<>> THEN 0
  ELSE 10 * ToNumber(SubSeq(str, 1, Len(str) - 1))
         + (CHOOSE d \in 0..9 : DigitChars[d + 1] = str[Len(str)])

\* new Date(`${dateStr}T00:00:00+08:00`) for dateStr = "YYYY-MM-DD"
DateFromString(dateStr) ==
  DaysFromCivil(ToNumber(SubSeq(dateStr, 1, 4)), ToNumber(SubSeq(dateStr, 6, 7)),
                ToNumber(SubSeq(dateStr, 9, 10))) * 24 - ChinaOffsetHours

\* instant.toLocaleString('en-CA', { timeZone: 'America/New_York', year: 'numeric',
\* month: '2-digit', day: '2-digit' }): "YYYY-MM-DD"
toLocaleString(instant) ==
  LET local == CivilFromDays((instant + EasternOffsetHours(instant)) \div 24)
  IN String(local.year) \o <<"-">> \o padStart(String(local.month), 2, "0")
       \o <<"-">> \o padStart(String(local.day), 2, "0")

\* str.split('-') of a "YYYY-MM-DD" string
split(str) == <<SubSeq(str, 1, 4), SubSeq(str, 6, 7), SubSeq(str, 9, 10)>>

\* date is a Date read through getFullYear(), getMonth() (0 is January), getDate();
\* the strings it builds are sequences of characters
formatDateForAPI(date) ==
  LET year == date.year
      month == date.month + 1
      day == date.day
      chineseDateStr == String(year) \o <<"-">> \o padStart(String(month), 2, "0")
                          \o <<"-">> \o padStart(String(day), 2, "0")
      chineseMidnight == DateFromString(chineseDateStr)
      usEasternDateStr == toLocaleString(chineseMidnight)
      parts == split(usEasternDateStr)
  IN Str(parts[1] \o padStart(parts[2], 2, "0") \o padStart(parts[3], 2, "0"))

\* the Dates formatDateForAPI is followed on: every day of the years modelled
DateCalls ==
  {[op |-> "formatDateForAPI", date |-> [year |-> y, month |-> m - 1, day |-> d],
    result |-> Pending] :
     y \in FirstYear..LastYear, m \in 1..12, d \in 1..31} \
  {c \in [op : {"formatDateForAPI"},
          date : [year : FirstYear..LastYear, month : 0..11, day : 29..31],
          result : {Pending}] :
     c.date.day > DaysInMonth(c.date.year, c.date.month + 1)}

\* formatDateForAPI(date) returns
FormatDateForAPI ==
  /\ call.op = "formatDateForAPI"
  /\ call.result = Pending
  /\ call' = [call EXCEPT !.result = formatDateForAPI(call.date)]
  /\ UNCHANGED <<scn, now, q, job, zombies, mounted, opt, view, mounts, presses, ev>>

\* an object with the given property, or without it when the value is undefined
Property(name, value) ==
  IF value = Undefined THEN [x \in {} |-> Undefined] ELSE [x \in {name} |-> value]

\* the bodies a server may send with a response: any value of success, of error
\* and of data, each possibly missing, beside a field the service never reads
Bodies ==
  { [timestamp |-> Num(1)] @@ Property("success", s) @@ Property("error", e)
      @@ Property("data", d) :
      s \in {Undefined, Bool(TRUE), Bool(FALSE), Str("nope"), Null},
      e \in {Undefined, Null, Str(""), Str("boom"), [message |-> Str("boom")],
             [message |-> Str("")], [message |-> Null], [code |-> Num(1)]},
      d \in {Undefined, Null, [v |-> "v1"]} }
    \cup {Null, InvalidJSON}

StatusLines ==
  { <<200, "OK">>, <<201, "Created">>, <<304, "Not Modified">>, <<404, "Not Found">>,
    <<429, "Too Many Requests">>, <<500, "Internal Server Error">> }

\* everything fetch() may settle with
AnyResponse ==
  {HttpResponse(l[1], l[2], b) : l \in StatusLines, b \in Bodies} \cup {NetworkFailure}

Endpoints == {"fetchGames", "fetchTeamOverview", "fetchTeamSchedule", "fetchNews"}

\* the calls of the service followed on their own: parseResponse is only called
\* with a response that is ok
ApiCalls ==
  {[op |-> "parseResponse", response |-> r, result |-> Pending] :
     r \in {x \in AnyResponse \ {NetworkFailure} : ok(x)}}
    \cup {[op |-> "apiGet", fn |-> f, response |-> r, bodyUsed |-> FALSE,
            result |-> Pending] :
            f \in Endpoints, r \in AnyResponse}

\* parseResponse(response) settles
ParseResponse ==
  /\ call.op = "parseResponse"
  /\ call.result = Pending
  /\ call' = [call EXCEPT !.result = parseResponse(call.response)]
  /\ UNCHANGED <<scn, now, q, job, zombies, mounted, opt, view, mounts, presses, ev>>

\* an endpoint function's apiGet settles
ApiGet ==
  /\ call.op = "apiGet"
  /\ call.result = Pending
  /\ call' = [call EXCEPT !.result = apiGet(call.fn, call.response),
                          !.bodyUsed = bodyUsed(call.response, returnFullResponse(call.fn))]
  /\ UNCHANGED <<scn, now, q, job, zombies, mounted, opt, view, mounts, presses, ev>>

-----------------------------------------------------------------------------
(* The order of the games feed (app/index.tsx, sortedGames)                 *)

getPriority(g) ==
  IF Truthy(Get(g, "isMarquee")) THEN 100
  ELSE IF Truthy(Get(g, "isOvertime")) THEN 90
  ELSE IF Truthy(Get(g, "isClosest")) THEN 80
  ELSE IF Get(g, "gameStatus") = Num(2) THEN 70
  ELSE IF Get(g, "gameStatus") = Num(1) THEN 60
  ELSE IF Get(g, "gameStatus") = Num(6) THEN 50
  ELSE IF Get(g, "gameStatus") = Num(3) THEN 40
  ELSE 0

RECURSIVE localeCompare(_, _)
\* a.localeCompare(b) of two strings of digits: negative, zero or positive
localeCompare(a, b) ==
  IF a = <<>> /\ b = <<>> THEN 0
  ELSE IF a = <<>> THEN 0 - 1
  ELSE IF b = <<>> THEN 1
  ELSE IF Head(a) = Head(b) THEN localeCompare(Tail(a), Tail(b))
  ELSE IF ToNumber(<<Head(a)>>) < ToNumber(<<Head(b)>>) THEN 0 - 1
  ELSE 1

\* faulty variant: a comparator that puts the lowest priority first
compare_ascending(a, b) ==
  IF getPriority(a) # getPriority(b) THEN getPriority(a) - getPriority(b)
  ELSE localeCompare(a.gameId.s, b.gameId.s)

\* the comparator handed to sort
compare(a, b) ==
  LET priorityA == getPriority(a)
      priorityB == getPriority(b)
  IN IF priorityA # priorityB THEN priorityB - priorityA
     ELSE localeCompare(a.gameId.s, b.gameId.s)

RECURSIVE sort(_)
\* Array.prototype.sort with the comparator: a stable sort, here by insertion of
\* the last element behind every element that does not compare above it
sort(array) ==
  IF array = <<>> THEN <<>>
  ELSE LET before == sort(SubSeq(array, 1, Len(array) - 1))
           last == array[Len(array)]
           at == Cardinality({i \in 1..Len(before) : compare(before[i], last) <= 0})
       IN SubSeq(before, 1, at) \o <<last>> \o SubSeq(before, at + 1, Len(before))

\* the useMemo of sortedGames: rawGames = data?.games || [] (an array is truthy),
\* sorted as a copy.  `rawGames` is the array as the call leaves it.
sortedGames(data) ==
  LET rawGames == IF data \in {Undefined, Null} \/ "games" \notin DOMAIN data THEN <<>>
                  ELSE data.games
  IN [rawGames |-> rawGames, sortedGames |-> sort(rawGames)]

\* the games of a day: the flags may be missing, the first rule that matches
\* decides; ids are strings of digits
GameValues ==
  {[gameId |-> Str(i)] @@ p : i \in {<<"9">>, <<"1", "0">>, <<"1", "1">>},
     p \in {[gameStatus |-> Num(3), isMarquee |-> Bool(TRUE), isOvertime |-> Bool(TRUE)],
            [gameStatus |-> Num(2), isOvertime |-> Bool(TRUE), isClosest |-> Bool(TRUE)],
            [gameStatus |-> Num(3), isMarquee |-> Bool(FALSE), isClosest |-> Bool(TRUE)],
            [gameStatus |-> Num(2)], [gameStatus |-> Num(1)], [gameStatus |-> Num(6)],
            [gameStatus |-> Num(3)], [gameStatus |-> Num(4)]}}

MaxGames == 3

\* the renders of the games screen: no data yet, or the games of the response
SortCalls ==
  {[op |-> "sortedGames", data |-> d, cached |-> d, result |-> Pending] :
     d \in {Undefined, [total |-> Num(0)]}
             \cup {[games |-> a] :
                     a \in UNION {[1..n -> GameValues] : n \in 0..MaxGames}}}

\* the memo of sortedGames is computed
UseSortedGames ==
  /\ call.op = "sortedGames"
  /\ call.result = Pending
  /\ LET memo == sortedGames(call.data)
     IN call' = [call EXCEPT
                   !.cached = IF call.data = Undefined THEN Undefined
                              ELSE [g \in DOMAIN call.data |->
                                      IF g = "games" THEN memo.rawGames ELSE call.data[g]],
                   !.result = [sortedGames |-> memo.sortedGames]]
  /\ UNCHANGED <<scn, now, q, job, zombies, mounted, opt, view, mounts, presses, ev>>

-----------------------------------------------------------------------------
(* The query hooks of a render, as functions of the route parameters and of *)
(* the data the component holds                                            *)

NaN == [nan |-> TRUE]

\* Number(value) for undefined, null, a number and a string of digits
Number(value) ==
  CASE value = Undefined -> NaN
    [] value = Null -> Num(0)
    [] "n" \in DOMAIN value -> value
    [] "s" \in DOMAIN value -> Num(ToNumber(value.s))
    [] OTHER -> NaN

\* one useQuery / useInfiniteQuery call: its key as the cache hashes it (an
\* undefined element of the key array is hashed as null), the request its queryFn
\* makes and its `enabled` option
Hook(name, key, fn, arg, enabled) ==
  [hook |-> name,
   queryKey |-> [name |-> key[1], param |-> IF key[2] = Undefined THEN Null ELSE key[2]],
   request |-> [fn |-> fn, arg |-> arg], enabled |-> enabled]

\* faulty variant: the overviews are enabled whatever the status of the game
enabledTeamOverview_anyStatus(game, side) == Truthy(OptionalGet(game, side))

\* app/game/[id].tsx: enabled of the pre-match overview of one side
enabledTeamOverview(game, side) ==
  /\ Truthy(OptionalGet(game, side))
  /\ \/ Number(OptionalGet(game, "gameStatus")) = Num(1)
     \/ Number(OptionalGet(game, "gameStatus")) = Num(6)

\* game?.awayTeam?.abbreviation || ''
AbbreviationOrEmpty(abbreviation) == IF Truthy(abbreviation) THEN abbreviation ELSE Str("")

\* app/game/[id].tsx
GameDetailHooks(id, game) ==
  LET away == OptionalGet(OptionalGet(game, "awayTeam"), "abbreviation")
      home == OptionalGet(OptionalGet(game, "homeTeam"), "abbreviation")
  IN { Hook("gameDetail", <<"gameDetail", id>>, "fetchGameDetail", id, TRUE),
       Hook("gameSummary", <<"gameSummary", id>>, "fetchGameSummary", id,
            enabledSummary(game)),
       Hook("teamStatsAway", <<"teamOverview", away>>, "fetchTeamOverview",
            AbbreviationOrEmpty(away), enabledTeamOverview(game, "awayTeam")),
       Hook("teamStatsHome", <<"teamOverview", home>>, "fetchTeamOverview",
            AbbreviationOrEmpty(home), enabledTeamOverview(game, "homeTeam")) }

\* app/game/[id]/player/[playerId].tsx
PlayerGamePerformanceHooks(id) ==
  { Hook("game", <<"gameDetail", id>>, "fetchGameDetail", id, TRUE) }

\* app/team/[id].tsx
TeamDetailHooks(teamAbbr, overview) ==
  { Hook("overview", <<"teamOverview", teamAbbr>>, "fetchTeamOverview", teamAbbr, TRUE),
    Hook("leaders", <<"teamLeaders", teamAbbr>>, "fetchTeamLeaders", teamAbbr,
         enabledTeam(overview)),
    Hook("scheduleData", <<"teamSchedule", teamAbbr>>, "fetchTeamSchedule", teamAbbr,
         enabledTeam(overview)),
    Hook("recentGames", <<"teamRecentGames", teamAbbr>>, "fetchTeamRecentGames", teamAbbr,
         enabledTeam(overview)) }

\* faulty variant: the key of the games query leaves the date out
GamesHooks_undated(selectedDate) ==
  { Hook("games", <<"games", Undefined>>, "fetchGames",
         formatDateForAPI(selectedDate), TRUE) }

\* app/index.tsx: fetchGames(selectedDate) asks for formatDateForAPI(selectedDate)
GamesHooks(selectedDate) ==
  { Hook("games", <<"games", formatDateForAPI(selectedDate)>>, "fetchGames",
         formatDateForAPI(selectedDate), TRUE) }

\* the hooks of one render of a screen
HooksOfRender(render) ==
  CASE render.screen = "game" -> GameDetailHooks(render.id, render.game)
    [] render.screen = "card" -> PlayerGamePerformanceHooks(render.id)
    [] render.screen = "team" -> TeamDetailHooks(render.id, render.overview)
    [] OTHER -> GamesHooks(render.selectedDate)

\* the teams of a game detail: missing, null, or with an abbreviation that may be
\* missing or empty
TeamValues ==
  {Undefined, Null, [name |-> Str("Lakers")], [abbreviation |-> Str("")],
   [abbreviation |-> Str("LAL")]}

\* what the game screen may hold as `game`
GameSnapshots ==
  {Undefined}
    \cup {[id |-> Str("g1")] @@ Property("gameStatus", g) @@ Property("awayTeam", a)
            @@ Property("homeTeam", h) :
            g \in {Undefined, Num(1), Num(2), Num(3), Num(6), Str(<<"1">>), Str(<<"3">>)},
            a \in TeamValues,
            h \in {Undefined, [abbreviation |-> Str("BOS")], [abbreviation |-> Str("LAL")]}}

\* the renders followed: route parameters and data of each screen
Renders ==
  {[screen |-> "game", id |-> Str(i), game |-> g] : i \in {"g1", "g2"}, g \in GameSnapshots}
    \cup {[screen |-> "card", id |-> Str(i)] : i \in {"g1", "g2"}}
    \cup {[screen |-> "team", id |-> Str(t), overview |-> o] :
            t \in {"LAL", "BOS", "lal"}, o \in {Undefined, [v |-> "v1"]}}
    \cup {[screen |-> "games", selectedDate |-> [year |-> 2026, month |-> 0, day |-> d]] :
            d \in {1, 15}}

\* two screens rendered over the same cache
RenderCalls ==
  {[op |-> "render", first |-> a, second |-> b, result |-> Pending] :
     a \in Renders, b \in Renders}

\* both components run their hooks
RenderHooks ==
  /\ call.op = "render"
  /\ call.result = Pending
  /\ call' = [call EXCEPT !.result = [first |-> HooksOfRender(call.first),
                                     second |-> HooksOfRender(call.second)]]
  /\ UNCHANGED <<scn, now, q, job, zombies, mounted, opt, view, mounts, presses, ev>>

\* the pagination metadata of each endpoint
Paginations(fn) ==
  IF fn = "fetchNews"
    THEN {[hasMore |-> Bool(h), nextPage |-> Num(n)] : h \in BOOLEAN, n \in 2..MaxPageNumber}
    ELSE {[page |-> Num(p), pages |-> Num(n)] : p \in 1..MaxPageNumber, n \in 1..MaxPageNumber}

\* the pages a paginated endpoint may resolve with: with their pagination, and
\* without a meta or without a pagination in it
ServerPages(fn) ==
  {[items |-> i] @@ Property("meta", m) :
     i \in PageItems,
     m \in {Undefined, Null, [total |-> Num(2)], [total |-> Num(2), pagination |-> Null]}
            \cup {[total |-> Num(2), pagination |-> p] : p \in Paginations(fn)}}

PageCalls ==
  UNION { {[op |-> "getNextPageParam", fn |-> f, lastPage |-> p, result |-> Pending] :
             p \in ServerPages(f)} : f \in {"fetchNews", "fetchTeamSchedule"} }

\* the cache asks the call site for the parameter of the page after lastPage
GetNextPageParam ==
  /\ call.op = "getNextPageParam"
  /\ call.result = Pending
  /\ call' = [call EXCEPT !.result = getNextPageParam(call.fn, call.lastPage)]
  /\ UNCHANGED <<scn, now, q, job, zombies, mounted, opt, view, mounts, presses, ev>>

-----------------------------------------------------------------------------
(* The remote API, as seen through apiGet *)

Payloads(req) ==
  CASE req.fn = "fetchGameDetail" -> {[gameStatus |-> g] : g \in GameStatuses}
    [] req.fn = "fetchNews" ->
         {[items |-> i,
           meta |-> [pagination |-> [hasMore |-> Bool(h), nextPage |-> Num(req.page.n + 1)]]] :
            i \in PageItems, h \in {b \in BOOLEAN : b => req.page.n < MaxServerPages}}
    [] req.fn = "fetchTeamSchedule" ->
         {[items |-> i, meta |-> [pagination |-> [page |-> req.page, pages |-> Num(n)]]] :
            i \in PageItems, n \in 1..MaxServerPages}
    [] OTHER -> {[v |-> x] : x \in Versions}

\* the body the server sends for a payload: the envelope around it, or, for the
\* endpoints read in full, the payload's fields beside the success flag
Envelope(fn, payload) ==
  IF returnFullResponse(fn) THEN [success |-> Bool(TRUE)] @@ payload
  ELSE [success |-> Bool(TRUE), data |-> payload]

ServerError == HttpResponse(500, "Internal Server Error", Undefined)
RateLimited == HttpResponse(429, "Too Many Requests", Undefined)
ApiErrorBody == [success |-> Bool(FALSE), error |-> [message |-> Str("boom")]]
MalformedBody == [success |-> Str("nope")]

\* the ways a request can go wrong: every kind for the games of a day, a server
\* error for the other endpoints
FailedResponses(fn) ==
  IF fn = "fetchGames"
    THEN {ServerError, RateLimited, NetworkFailure,
          HttpResponse(200, "OK", ApiErrorBody), HttpResponse(200, "OK", MalformedBody),
          HttpResponse(200, "OK", InvalidJSON)}
    ELSE {ServerError}

\* what fetch() can settle with for a request
Wire(req) ==
  {HttpResponse(200, "OK", Envelope(req.fn, d)) : d \in Payloads(req)}
    \cup FailedResponses(req.fn)

\* what the queryFn of a request can settle with
Responses(req) == {apiGet(req.fn, w) : w \in Wire(req)}

-----------------------------------------------------------------------------
(* Query cache (QueryClient, Query, QueryObserver) *)

NewEntry ==
  [status |-> "pending", fetchStatus |-> "idle", data |-> Undefined, error |-> NoError,
   updatedAt |-> 0, dir |-> "none"]

\* Query.isStaleByTime(staleTime)
isStale(e) == e.data = Undefined \/ now >= e.updatedAt + staleTime

\* shouldFetchOnMount: an enabled observer fetches on mount when there is no data or it is stale
shouldFetchOnMount(e, enabled) == enabled /\ isStale(e)

\* shouldFetchOptionally: an observer whose `enabled` turned true fetches when stale
shouldFetchOptionally(e, enabled, prevEnabled) == ~prevEnabled /\ enabled /\ isStale(e)

\* the retryer's decision after a failed attempt: `retry` is a number, so the
\* error is not looked at
shouldRetry(failureCount, error) == failureCount < retry

\* the request the fetch function of a query issues first:
\* a plain query calls its queryFn; fetchNextPage asks for the page after the last one;
\* any other fetch of an infinite query starts again from the first page
FirstRequest(fn, kind, dir, data) ==
  LET old == IF data = Undefined THEN <<>> ELSE data.pages
  IN IF kind = "plain"
       THEN [req |-> queryFn(fn, kind, Undefined), acc |-> <<>>, remaining |-> 0,
             from |-> Undefined]
     ELSE IF dir = "forward" /\ Len(old) > 0
       THEN LET param == getNextPageParam(fn, old[Len(old)])
            IN IF param = Undefined
                 THEN [req |-> Undefined, acc |-> old, remaining |-> 0, from |-> Undefined]
                 ELSE [req |-> queryFn(fn, kind, param), acc |-> old, remaining |-> 0,
                       from |-> old[Len(old)]]
     ELSE [req |-> queryFn(fn, kind, initialPageParam), acc |-> <<>>, remaining |-> Len(old),
           from |-> Undefined]

\* reducer of the 'fetch' action
OnFetch(e, dir) ==
  IF e.data = Undefined
    THEN [e EXCEPT !.fetchStatus = "fetching", !.dir = dir, !.error = NoError, !.status = "pending"]
    ELSE [e EXCEPT !.fetchStatus = "fetching", !.dir = dir]

\* reducer of the 'success' action
OnSuccess(e, data) ==
  [e EXCEPT !.status = "success", !.fetchStatus = "idle", !.data = data,
            !.error = NoError, !.updatedAt = now]

\* reducer of the 'error' action: the data fetched before stays
OnError(e, error) ==
  [e EXCEPT !.status = "error", !.fetchStatus = "idle", !.error = error]

\* st = [q, job, zombies, issued, from, got]: the cache while one handler runs
StartRun(st, k, fn, kind, dir, fails) ==
  LET first == FirstRequest(fn, kind, dir, st.q[k].data)
  IN IF first.req = Undefined
       THEN [st EXCEPT !.q[k] = OnSuccess(st.q[k], [pages |-> first.acc]), !.job[k] = NoJob]
       ELSE [st EXCEPT
               !.job[k] = [fn |-> fn, kind |-> kind, dir |-> dir, req |-> first.req,
                           acc |-> first.acc, remaining |-> first.remaining,
                           fails |-> fails, phase |-> "net", noRetry |-> FALSE,
                           error |-> NoError],
               !.issued = st.issued \cup {first.req},
               !.from = IF kind = "infinite" THEN first.from ELSE st.from]

\* faulty variant: a fetch that always joins the fetch in flight
QueryFetch_neverCancel(st, k, fn, kind, dir, cancelRefetch) ==
  IF st.q[k].fetchStatus # "idle" THEN st
  ELSE StartRun([st EXCEPT !.q[k] = OnFetch(st.q[k], dir)], k, fn, kind, dir, 0)

\* Query.fetch(options, fetchOptions)
QueryFetch(st, k, fn, kind, dir, cancelRefetch) ==
  LET e == st.q[k]
      busy == e.fetchStatus # "idle"
  IN IF busy /\ ~(e.data # Undefined /\ cancelRefetch)
       THEN \* share the fetch in flight (and let its retries continue)
            IF st.job[k] # NoJob THEN [st EXCEPT !.job[k].noRetry = FALSE] ELSE st
       ELSE LET j == st.job[k]
                left == IF busy /\ j # NoJob /\ j.phase = "net"
                          THEN {[fn |-> j.fn, kind |-> j.kind, req |-> j.req,
                                 count |-> Len(j.acc), remaining |-> j.remaining]}
                          ELSE {}
                st1 == [st EXCEPT !.q[k] = OnFetch(e, dir), !.zombies = st.zombies \cup left]
            IN StartRun(st1, k, fn, kind, dir, 0)

-----------------------------------------------------------------------------
(* What a component renders from its observers' results *)

NoView == [shows |-> "unmounted"]

isLoading(e) == e.status = "pending" /\ e.fetchStatus = "fetching"

\* which branch of the component's render the hook's result selects
Shows(r, cache) ==
  LET e == cache[RoleKey(r)]
  IN CASE scn.screen = "news" ->
            IF isLoading(e) /\ e.data = Undefined THEN "skeleton"
            ELSE IF e.error # NoError THEN "error" ELSE "list"
       [] scn.screen = "team" /\ r = "D" /\ scn.kind = "infinite" ->
            IF isLoading(cache[scn.pKey]) \/ cache[scn.pKey].data = Undefined THEN "none"
            ELSE IF e.data = Undefined THEN "spinner" ELSE "list"
       [] scn.screen = "player" /\ r = "P" ->
            IF isLoading(e) THEN "skeleton"
            ELSE IF e.error # NoError THEN "error" ELSE "content"
       [] scn.screen = "games" ->
            IF isLoading(e) THEN "skeleton"
            ELSE IF e.error # NoError THEN "error" ELSE "list"
       [] OTHER -> "content"

ViewOf(r, cache) ==
  LET e == cache[RoleKey(r)]
      paged == RoleKind(r) = "infinite"
      branch == Shows(r, cache)
  IN [shows |-> branch, status |-> e.status, data |-> e.data, error |-> e.error,
      hasNextPage |-> paged /\ hasNextPage(RoleFn(r), e.data),
      isFetchingNextPage |-> paged /\ e.fetchStatus = "fetching" /\ e.dir = "forward",
      items |-> IF paged /\ branch = "list" /\ e.data # Undefined
                  THEN flatMap(e.data.pages) ELSE <<>>]

RolesOn(s) == {r \in ActiveRoles : RoleScreen(r) = s}

\* the observers of the component have published a result it has not rendered yet
NeedsRender(s) ==
  /\ mounted[s]
  /\ \E r \in RolesOn(s) : ViewOf(r, q) # view[r] \/ EnabledOf(r, q) # opt[r]

-----------------------------------------------------------------------------
(* Handlers *)

State ==
  [q |-> q, job |-> job, zombies |-> zombies, issued |-> {}, from |-> Undefined,
   got |-> Undefined]

Commit(st, type, who) ==
  /\ q' = st.q
  /\ job' = st.job
  /\ zombies' = st.zombies
  /\ ev' = [type |-> type, who |-> who, issued |-> st.issued, from |-> st.from,
            got |-> st.got]

RECURSIVE Subscribe(_, _, _)
\* QueryObserver.onSubscribe of each hook of a mounting component, in hook order
Subscribe(st, hooks, en) ==
  IF hooks = <<>> THEN st
  ELSE LET r == Head(hooks)
           k == RoleKey(r)
           st1 == IF shouldFetchOnMount(st.q[k], en[r])
                    THEN QueryFetch(st, k, RoleFn(r), RoleKind(r), "none", FALSE)
                    ELSE st
       IN Subscribe(st1, Tail(hooks), en)

RECURSIVE SetOptions(_, _, _, _)
\* QueryObserver.setOptions of each hook of a re-rendering component, in hook order
SetOptions(st, hooks, en, prev) ==
  IF hooks = <<>> THEN st
  ELSE LET r == Head(hooks)
           k == RoleKey(r)
           st1 == IF shouldFetchOptionally(st.q[k], en[r], prev[r])
                    THEN QueryFetch(st, k, RoleFn(r), RoleKind(r), "none", FALSE)
                    ELSE st
       IN SetOptions(st1, Tail(hooks), en, prev)

\* a screen mounts (or its route parameter starts naming this subject)
Mount(s) ==
  /\ s \in ScreensOf
  /\ ~mounted[s]
  /\ mounts < MaxMounts
  /\ LET en == [r \in Roles |-> r \in ActiveRoles /\ EnabledOf(r, q)]
         st == Subscribe(State, HooksOf(s), en)
     IN /\ Commit(st, "mount", s)
        /\ opt' = [r \in Roles |-> IF r \in RolesOn(s) THEN en[r] ELSE opt[r]]
        /\ view' = [r \in Roles |-> IF r \in RolesOn(s) THEN ViewOf(r, st.q) ELSE view[r]]
  /\ mounted' = [mounted EXCEPT ![s] = TRUE]
  /\ mounts' = mounts + 1
  /\ UNCHANGED <<call, scn, now, presses>>

\* a screen unmounts: a query left without observers stops retrying (Query.removeObserver)
Unmount(s) ==
  /\ s \in ScreensOf
  /\ mounted[s]
  /\ job' = [k \in Keys |->
               IF /\ job[k] # NoJob
                  /\ \E r \in RolesOn(s) : RoleKey(r) = k
                  /\ ~\E r \in ActiveRoles :
                        RoleKey(r) = k /\ RoleScreen(r) # s /\ mounted[RoleScreen(r)]
                 THEN [job[k] EXCEPT !.noRetry = TRUE]
                 ELSE job[k]]
  /\ mounted' = [mounted EXCEPT ![s] = FALSE]
  /\ opt' = [r \in Roles |-> IF r \in RolesOn(s) THEN FALSE ELSE opt[r]]
  /\ view' = [r \in Roles |-> IF r \in RolesOn(s) THEN NoView ELSE view[r]]
  /\ ev' = [type |-> "unmount", who |-> s, issued |-> {}, from |-> Undefined,
           got |-> Undefined]
  /\ UNCHANGED <<call, scn, now, q, zombies, mounts, presses>>

\* a component re-renders after a notification; its effects pass the new options on
Render(s) ==
  /\ s \in ScreensOf
  /\ NeedsRender(s)
  /\ LET en == [r \in Roles |-> r \in ActiveRoles /\ EnabledOf(r, q)]
         st == SetOptions(State, HooksOf(s), en, opt)
     IN /\ Commit(st, "render", s)
        /\ opt' = [r \in Roles |-> IF r \in RolesOn(s) THEN en[r] ELSE opt[r]]
        /\ view' = [r \in Roles |-> IF r \in RolesOn(s) THEN ViewOf(r, st.q) ELSE view[r]]
  /\ UNCHANGED <<call, scn, now, mounted, mounts, presses>>

\* the response of the request in flight arrives and the fetch function goes on
Respond(k) ==
  /\ job[k] # NoJob
  /\ job[k].phase = "net"
  /\ \E resp \in Responses(job[k].req) :
       LET j == job[k]
           acc == Append(j.acc, resp.data)
           param == IF j.kind = "infinite" /\ resp.ok /\ Len(acc) < j.remaining
                      THEN getNextPageParam(j.fn, resp.data) ELSE Undefined
           st == IF ~resp.ok
                   THEN IF shouldRetry(j.fails, resp.error) /\ ~j.noRetry
                          THEN [State EXCEPT !.job[k] =
                                  [j EXCEPT !.fails = j.fails + 1, !.phase = "wait",
                                            !.error = resp.error]]
                          ELSE [State EXCEPT !.q[k] = OnError(q[k], resp.error),
                                             !.job[k] = NoJob]
                 ELSE IF j.kind = "plain"
                   THEN [State EXCEPT !.q[k] = OnSuccess(q[k], resp.data), !.job[k] = NoJob]
                 ELSE IF param # Undefined
                   THEN [State EXCEPT
                           !.job[k] = [j EXCEPT !.req = queryFn(j.fn, j.kind, param),
                                                !.acc = acc],
                           !.issued = {queryFn(j.fn, j.kind, param)},
                           !.from = resp.data]
                 ELSE [State EXCEPT !.q[k] = OnSuccess(q[k], [pages |-> acc]),
                                    !.job[k] = NoJob]
       IN Commit([st EXCEPT !.got = resp], "respond", k)
  /\ UNCHANGED <<call, scn, now, mounted, opt, view, mounts, presses>>

\* faulty variant: a retry delay that never ends
RetryFire_never(k) ==
  /\ FALSE
  /\ UNCHANGED vars

\* the retry delay of a failed attempt is over
RetryFire(k) ==
  /\ job[k] # NoJob
  /\ job[k].phase = "wait"
  /\ LET j == job[k]
         st == IF j.noRetry
                 THEN [State EXCEPT !.q[k] = OnError(q[k], j.error), !.job[k] = NoJob]
                 ELSE StartRun(State, k, j.fn, j.kind, j.dir, j.fails)
     IN Commit(st, "retry", k)
  /\ UNCHANGED <<call, scn, now, mounted, opt, view, mounts, presses>>

\* the response of a request whose fetch was cancelled arrives: nobody reads it,
\* but the loop over the pages of an infinite query goes on
RespondZombie(z) ==
  /\ z \in zombies
  /\ \E resp \in Responses(z.req) :
       LET param == IF z.kind = "infinite" /\ resp.ok /\ z.count + 1 < z.remaining
                      THEN getNextPageParam(z.fn, resp.data) ELSE Undefined
       IN IF param # Undefined
            THEN /\ zombies' = (zombies \ {z}) \cup
                               {[z EXCEPT !.req = queryFn(z.fn, z.kind, param),
                                          !.count = z.count + 1]}
                 /\ ev' = [type |-> "zombie", who |-> "none",
                           issued |-> {queryFn(z.fn, z.kind, param)}, from |-> resp.data,
                           got |-> Undefined]
            ELSE /\ zombies' = zombies \ {z}
                 /\ ev' = [type |-> "zombie", who |-> "none", issued |-> {},
                           from |-> Undefined, got |-> Undefined]
  /\ UNCHANGED <<call, scn, now, q, job, mounted, opt, view, mounts, presses>>

\* time passes
Tick ==
  /\ now < MaxTicks * TickMs
  /\ now' = now + TickMs
  /\ ev' = [type |-> "tick", who |-> "none", issued |-> {}, from |-> Undefined,
           got |-> Undefined]
  /\ UNCHANGED <<call, scn, q, job, zombies, mounted, opt, view, mounts, presses>>

\* app/news.tsx: onEndReached of the list, with the values of the last render
NewsOnEndReached(v) == v.hasNextPage /\ ~v.isFetchingNextPage

\* app/team/[id].tsx: the load-more button is rendered when hasNextPage and
\* disabled while isFetchingNextPage; pressing it calls fetchNextPage()
ScheduleLoadMore(v) == v.hasNextPage /\ ~v.isFetchingNextPage

\* the list reaches its end (news) or the load-more button is pressed (team schedule)
LoadMore(s) ==
  /\ s = scn.screen
  /\ scn.kind = "infinite"
  /\ mounted[s]
  /\ presses < MaxPress
  /\ view["D"].shows = "list"
  /\ (s = "team") => ScheduleLoadMore(view["D"])
  /\ LET callsFetchNextPage == IF s = "news" THEN NewsOnEndReached(view["D"]) ELSE TRUE
         st == IF callsFetchNextPage
                 THEN QueryFetch(State, scn.dKey, scn.dFn, "infinite", "forward", TRUE)
                 ELSE State
     IN Commit(st, "loadMore", s)
  /\ presses' = presses + 1
  /\ UNCHANGED <<call, scn, now, mounted, opt, view, mounts>>

\* refetch() of a hook: pull-to-refresh and the retry buttons of the news screen
\* and of the games screen, the retry button of the player screen's error state
RefetchPress(r) ==
  /\ r \in ActiveRoles
  /\ mounted[RoleScreen(r)]
  /\ presses < MaxPress
  /\ \/ scn.screen = "news" /\ r = "D" /\ view[r].shows \in {"list", "error"}
     \/ scn.screen = "games" /\ r = "D" /\ view[r].shows \in {"list", "error"}
     \/ scn.screen = "player" /\ r = "P" /\ view[r].shows = "error"
  /\ LET st == QueryFetch(State, RoleKey(r), RoleFn(r), RoleKind(r), "none", TRUE)
     IN Commit(st, "refetch", r)
  /\ presses' = presses + 1
  /\ UNCHANGED <<call, scn, now, mounted, opt, view, mounts>>

\* app/_layout.tsx creates the QueryClient and nothing else: no listener of
\* AppState feeds the cache's focusManager and no listener of the network state
\* feeds its onlineManager, and the defaults of both listen to browser events
\* that React Native does not dispatch
focusManagerWired == FALSE
onlineManagerWired == FALSE

RECURSIVE Revalidate(_, _)
\* QueryCache.onFocus / onOnline: every query with an enabled observer that is
\* stale is fetched again, joining a fetch in flight
Revalidate(st, hooks) ==
  IF hooks = <<>> THEN st
  ELSE LET r == Head(hooks)
           k == RoleKey(r)
           st1 == IF opt[r] /\ isStale(st.q[k])
                    THEN QueryFetch(st, k, RoleFn(r), RoleKind(r), "none", FALSE)
                    ELSE st
       IN Revalidate(st1, Tail(hooks))

\* the hooks of the mounted screens
MountedHooks ==
  (IF mounted[scn.screen] THEN HooksOf(scn.screen) ELSE <<>>)
    \o (IF scn.second # "none" /\ mounted[scn.second] THEN HooksOf(scn.second) ELSE <<>>)

\* the application comes back to the foreground
AppForeground ==
  /\ LET st == IF focusManagerWired THEN Revalidate(State, MountedHooks) ELSE State
     IN Commit(st, "foreground", "none")
  /\ UNCHANGED <<call, scn, now, mounted, opt, view, mounts, presses>>

\* the device goes from offline to online
Reconnect ==
  /\ LET st == IF onlineManagerWired THEN Revalidate(State, MountedHooks) ELSE State
     IN Commit(st, "online", "none")
  /\ UNCHANGED <<call, scn, now, mounted, opt, view, mounts, presses>>

-----------------------------------------------------------------------------
(* Specifications *)

CacheInit(screens) ==
  /\ scn \in screens
  /\ now = 0
  /\ q = [k \in Keys |-> NewEntry]
  /\ job = [k \in Keys |-> NoJob]
  /\ zombies = {}
  /\ mounted = [s \in Screens |-> FALSE]
  /\ opt = [r \in Roles |-> FALSE]
  /\ view = [r \in Roles |-> NoView]
  /\ mounts = 0
  /\ presses = 0
  /\ ev = [type |-> "init", who |-> "none", issued |-> {}, from |-> Undefined,
           got |-> Undefined]

InitWith(screens) == CacheInit(screens) /\ call = NoCall

Init == InitWith(DetailScreens)
InitPages == InitWith(PagedScreens)
InitRefresh == InitWith(RefreshScreens)

Next ==
  \/ \E s \in Screens : Mount(s)
  \/ \E s \in Screens : Unmount(s)
  \/ \E s \in Screens : Render(s)
  \/ \E k \in Keys : Respond(k)
  \/ \E k \in Keys : RetryFire(k)
  \/ \E z \in zombies : RespondZombie(z)
  \/ Tick
  \/ \E s \in Screens : LoadMore(s)
  \/ \E r \in Roles : RefetchPress(r)

\* the detail screens: a parent query and one of its dependents
Spec == Init /\ [][Next]_vars

\* the paginated lists: the news feed and the team schedule
SpecPages == InitPages /\ [][Next]_vars

\* the screens the user can refresh: the games of a day, whose requests fail in
\* every way the API service can fail, and the news feed
SpecRefresh == InitRefresh /\ [][Next]_vars

\* the same screens, with the events of the operating system
NextApp ==
  \/ Next
  \/ AppForeground
  \/ Reconnect

SpecApp == InitRefresh /\ [][NextApp]_vars

\* the calls of the API service, one per behaviour
ServiceCalls == ApiCalls \cup DateCalls \cup PageCalls \cup RenderCalls \cup SortCalls

InitService == CacheInit(GamesScreen) /\ call \in ServiceCalls

NextService ==
  \/ ParseResponse
  \/ ApiGet
  \/ FormatDateForAPI
  \/ GetNextPageParam
  \/ RenderHooks
  \/ UseSortedGames

SpecService == InitService /\ [][NextService]_vars

\* every request on the network is answered (or fails) and every retry delay
\* ends
FairRefresh ==
  /\ SpecRefresh
  /\ WF_vars(\E k \in Keys : Respond(k))
  /\ WF_vars(\E k \in Keys : RetryFire(k))

\* React re-renders a mounted component after each notification
FairSpec == Spec /\ WF_vars(\E s \in Screens : Render(s))

-----------------------------------------------------------------------------
(* Properties of the query cache and of the dependent queries *)

\* C1: a consumer that subscribes while a fetch of the same resource is in flight
\* issues no second network call for it, and two mounted consumers of the game
\* detail that have rendered the latest notification show the same data, error
\* and status.
C1_Deduplication ==
  [][ /\ \A s \in Screens :
           (~mounted[s] /\ mounted'[s]) =>
             ev'.issued \cap {job[k].req : k \in {x \in Keys : job[x] # NoJob}} = {}
      /\ (mounted'["game"] /\ mounted'["card"]
            /\ ~NeedsRender("game")' /\ ~NeedsRender("card")')
           => /\ view'["P"].data = view'["S"].data
              /\ view'["P"].error = view'["S"].error
              /\ view'["P"].status = view'["S"].status
    ]_vars

\* the second consumer has mounted while the first load of the game detail is in flight
C1_Witness ==
  /\ ev.type = "mount"
  /\ ev.issued = {}
  /\ mounted["game"] /\ mounted["card"]
  /\ q["gameDetail"].fetchStatus = "fetching"
  /\ q["gameDetail"].data = Undefined

\* C2 (as amended): while the parent's entry holds no data (it was never fetched,
\* its first load is in flight, or its first load has failed) the dependent's entry
\* stays idle and no request for it is issued; a mount or a render starts a
\* dependent's request only when the `enabled` expression over the parent's data holds.
C2_DependentGating ==
  /\ q[scn.pKey].data = Undefined =>
       /\ q[scn.dKey] = NewEntry
       /\ job[scn.dKey] = NoJob
       /\ ~\E req \in ev.issued : req.fn = scn.dFn
  /\ (ev.type \in {"mount", "render"} /\ \E req \in ev.issued : req.fn = scn.dFn) =>
       /\ q[scn.pKey].data # Undefined
       /\ scn.gate = "summary" => q[scn.pKey].data.gameStatus = Num(3)

\* the parent's first load has failed for good and the screen has rendered that
C2_Witness ==
  /\ mounted[scn.screen]
  /\ ~NeedsRender(scn.screen)
  /\ q[scn.pKey].status = "error"
  /\ q[scn.pKey].data = Undefined
  /\ q[scn.dKey] = NewEntry

\* C2 as stated: a request for the dependent key is started only while the parent's
\* entry is in success, neither loading (a fetch of it in flight) nor in error.
C2_Original ==
  (\E req \in ev.issued : req.fn = scn.dFn) =>
     (q[scn.pKey].status = "success" /\ q[scn.pKey].fetchStatus = "idle")

\* C3: once the parent of a dependent declared with `enabled: !!parent` holds its
\* data while the screen is mounted, the dependent leaves idle (its fetch starts)
\* with no other step than the screen's own re-render, unless the screen unmounts first.
C3_DependentStarts ==
  (scn.gate \in {"details", "overview"} /\ mounted[scn.screen]
     /\ q[scn.pKey].status = "success")
    ~> (\/ ~mounted[scn.screen]
        \/ q[scn.dKey].fetchStatus = "fetching"
        \/ q[scn.dKey].status # "pending")

\* the re-render that follows the parent's success has started the dependent's fetch
C3_Witness ==
  /\ scn.gate \in {"details", "overview"}
  /\ ev.type = "render"
  /\ q[scn.pKey].status = "success"
  /\ \E req \in ev.issued : req.fn = scn.dFn
  /\ q[scn.dKey].fetchStatus = "fetching"

\* C10: a consumer that mounts on a key whose data was fetched at time T issues no
\* request for it before T + 5000 ms; at or after T + 5000 ms (the query being
\* enabled) the mount leaves the key with a fetch in flight.
C10_Staleness ==
  \A r \in ActiveRoles :
    (ev.type = "mount" /\ ev.who = RoleScreen(r) /\ q[RoleKey(r)].data # Undefined) =>
      /\ now < q[RoleKey(r)].updatedAt + 5000 =>
           ~\E req \in ev.issued : req.fn = RoleFn(r)
      /\ (now >= q[RoleKey(r)].updatedAt + 5000 /\ EnabledOf(r, q)) =>
           (q[RoleKey(r)].fetchStatus = "fetching" /\ job[RoleKey(r)] # NoJob)

\* a screen has mounted again 2.5 s after its parent query was fetched: no request
C10_Witness ==
  /\ ev.type = "mount"
  /\ ev.who = scn.screen
  /\ ev.issued = {}
  /\ q[scn.pKey].status = "success"
  /\ q[scn.pKey].updatedAt < now
  /\ now < q[scn.pKey].updatedAt + 5000

-----------------------------------------------------------------------------
(* Properties of the paginated lists *)

\* C4 as stated: a scroll-end or load-more event that arrives when the last page
\* of the cache reports no further page, or while a next-page fetch of the key is
\* in flight, issues no request and changes nothing in the cache.
C4_Original ==
  [][ (ev'.type = "loadMore" /\ presses' = presses + 1) =>
        ((\/ ~hasNextPage(scn.dFn, q[scn.dKey].data)
          \/ (q[scn.dKey].fetchStatus = "fetching" /\ q[scn.dKey].dir = "forward"))
           => (ev'.issued = {} /\ q' = q /\ job' = job /\ zombies' = zombies))
    ]_vars

\* C5: every request of a paginated query asks for page 1 when it is the first of
\* its fetch, and otherwise for the page named by the pagination of the page
\* received just before it; a fetch has one request in flight, issued when the
\* pages before it are in its accumulated sequence.
C5_SerialPagination ==
  \A req \in ev.issued :
    req.fn = scn.dFn =>
      /\ ev.from = Undefined => req.page = Num(1)
      /\ ev.from # Undefined =>
           IF req.fn = "fetchNews"
             THEN /\ ev.from.meta.pagination.hasMore = Bool(TRUE)
                  /\ req.page = ev.from.meta.pagination.nextPage
             ELSE /\ ev.from.meta.pagination.page.n < ev.from.meta.pagination.pages.n
                  /\ req.page.n = ev.from.meta.pagination.page.n + 1
      /\ ev.type # "zombie" =>
           /\ job[scn.dKey] # NoJob
           /\ job[scn.dKey].phase = "net"
           /\ job[scn.dKey].req = req
           /\ req.page.n = Len(job[scn.dKey].acc) + 1
           /\ ev.from = Undefined => job[scn.dKey].acc = <<>>
           /\ ev.from # Undefined =>
                job[scn.dKey].acc[Len(job[scn.dKey].acc)] = ev.from

\* the list has asked for page 2 with the token of the page 1 it holds
C5_Witness ==
  /\ ev.type = "loadMore"
  /\ ev.from # Undefined
  /\ Len(q[scn.dKey].data.pages) = 1
  /\ \E req \in ev.issued : req.fn = scn.dFn /\ req.page = Num(2)

\* C6: the list a screen renders for a paginated key is the concatenation of the
\* items of the pages of its data, page after page and in each page's order; its
\* length is the sum of the pages' item counts; once the screen has rendered the
\* latest notification, these pages are the pages of the cache.
C6_Concatenation ==
  (mounted[scn.screen] /\ view["D"].shows = "list") =>
    IF view["D"].data = Undefined THEN view["D"].items = <<>>
    ELSE LET pages == view["D"].data.pages
             items == view["D"].items
             Off[i \in 0..Len(pages)] ==
               IF i = 0 THEN 0 ELSE Off[i - 1] + Len(pages[i].items)
         IN /\ Len(items) = Off[Len(pages)]
            /\ \A i \in 1..Len(pages) : \A j \in 1..Len(pages[i].items) :
                 items[Off[i - 1] + j] = pages[i].items[j]
            /\ ~NeedsRender(scn.screen) => pages = q[scn.dKey].data.pages

\* two pages of two items each are rendered as a list of four
C6_Witness ==
  /\ mounted[scn.screen]
  /\ view["D"].shows = "list"
  /\ Len(view["D"].data.pages) = 2
  /\ view["D"].items = <<2, 1, 2, 1>>

C8_FailureKeepsPages ==
  [][ (/\ q[scn.dKey].fetchStatus = "fetching"
       /\ q'[scn.dKey].fetchStatus = "idle"
       /\ q'[scn.dKey].status = "error") =>
        /\ q'[scn.dKey].data = q[scn.dKey].data
        /\ q'[scn.dKey].updatedAt = q[scn.dKey].updatedAt
        /\ q'[scn.dKey].error # NoError
    ]_vars

\* the fetch of page 2 has failed and page 1 is still in the entry
C8_Witness ==
  /\ ev.type = "respond"
  /\ q[scn.dKey].status = "error"
  /\ q[scn.dKey].fetchStatus = "idle"
  /\ q[scn.dKey].dir = "forward"
  /\ q[scn.dKey].data # Undefined
  /\ Len(q[scn.dKey].data.pages) = 1

\* C9 as stated: once the news screen has rendered a failed load-more, it still
\* shows the items of the pages fetched before, and the retry it offers requests
\* the page after them and no other.
C9_Original ==
  [][ /\ (/\ scn.screen = "news"
          /\ mounted'["news"]
          /\ ~NeedsRender("news")'
          /\ q'["news"].status = "error"
          /\ q'["news"].fetchStatus = "idle"
          /\ q'["news"].dir = "forward"
          /\ q'["news"].data # Undefined) =>
            (view'["D"].shows = "list" /\ view'["D"].items = flatMap(q'["news"].data.pages))
      /\ (/\ scn.screen = "news"
          /\ ev'.type = "refetch"
          /\ presses' = presses + 1
          /\ q["news"].status = "error"
          /\ q["news"].dir = "forward"
          /\ q["news"].data # Undefined) =>
            (\A req \in ev'.issued : req.page.n = Len(q["news"].data.pages) + 1)
    ]_vars

-----------------------------------------------------------------------------
(* Properties of the retry policy *)

\* C11 (as amended): a failed fetch is retried automatically once, so a fetch has at
\* most two attempts; a fetch whose first attempt fails and whose second attempt
\* succeeds ends in success holding the second attempt's data, and a fetch whose
\* two attempts fail ends in error holding the second failure.
C11_RetryOnce ==
  [][ \A k \in Keys :
        /\ job'[k] # NoJob => job'[k].fails \in {0, 1}
        /\ (/\ ev'.type = "respond"
            /\ ev'.who = k
            /\ job[k].phase = "net"
            /\ job[k].fails = 1) =>
             IF ev'.got.ok
               THEN \/ /\ job'[k] = NoJob
                       /\ q'[k].status = "success"
                       /\ q'[k].fetchStatus = "idle"
                       /\ q'[k].error = NoError
                       /\ job[k].kind = "plain" => q'[k].data = ev'.got.data
                       /\ job[k].kind = "infinite" =>
                            q'[k].data.pages = Append(job[k].acc, ev'.got.data)
                    \/ /\ job[k].kind = "infinite"
                       /\ job'[k] # NoJob
                       /\ job'[k].phase = "net"
                       /\ job'[k].acc = Append(job[k].acc, ev'.got.data)
               ELSE /\ job'[k] = NoJob
                    /\ q'[k].status = "error"
                    /\ q'[k].fetchStatus = "idle"
                    /\ q'[k].error = ev'.got.error
    ]_vars

\* the first attempt of a fetch has failed and its second attempt is in flight
C11_Witness ==
  /\ ev.type = "retry"
  /\ ev.issued # {}
  /\ job[ev.who].phase = "net"
  /\ job[ev.who].fails = 1

\* C11 as stated: a fetch is retried up to 3 times, so the failure of its second
\* attempt (its screen still mounted) is followed by a third attempt, not by error.
C11_Original ==
  [][ \A k \in Keys :
        (/\ ev'.type = "respond"
         /\ ev'.who = k
         /\ job[k].phase = "net"
         /\ job[k].fails = 1
         /\ ~job[k].noRetry
         /\ ~ev'.got.ok) =>
           (job'[k] # NoJob /\ job'[k].phase = "wait" /\ q'[k].status # "error")
    ]_vars

\* C12: the retry policy does not look at the kind of failure.  Whatever an attempt
\* failed with (HTTP 429, another status outside 2xx, no network, an error
\* envelope, a body that cannot be read), the first failure of a fetch that still
\* has an observer schedules the one retry and leaves the entry as it was, and any
\* other failure ends the fetch in status error.
C12_RetryAnyFailure ==
  [][ \A k \in Keys :
        (/\ ev'.type = "respond" /\ ev'.who = k /\ job[k].phase = "net" /\ ~ev'.got.ok) =>
           IF job[k].fails = 0 /\ ~job[k].noRetry
             THEN /\ job'[k] = [job[k] EXCEPT !.fails = 1, !.phase = "wait",
                                              !.error = ev'.got.error]
                  /\ q'[k] = q[k]
             ELSE /\ job'[k] = NoJob
                  /\ q'[k].status = "error"
                  /\ q'[k].fetchStatus = "idle"
    ]_vars

\* a rate-limited first attempt of the games' fetch waits for its retry
C12_Witness ==
  /\ ev.type = "respond"
  /\ ev.got = apiRequest(RateLimited, FALSE)
  /\ job[ev.who] # NoJob
  /\ job[ev.who].phase = "wait"
  /\ job[ev.who].fails = 1

\* C13: no failure is swallowed.  A failed attempt that is not retried (the second
\* failure, or a failure after the last observer left) ends the fetch with the
\* entry in status error, idle, its error being the failure of that attempt,
\* whatever its kind (HTTP error, rate limit, error envelope, malformed body,
\* network failure); a failed attempt that is retried keeps its failure while it
\* waits and leaves the entry fetching; a fetch abandoned while it waits ends in
\* status error with the failure it was waiting on.
C13_NoFailureSwallowed ==
  [][ \A k \in Keys :
        /\ (/\ ev'.type = "respond" /\ ev'.who = k /\ job[k].phase = "net" /\ ~ev'.got.ok) =>
             /\ ev'.got.error # NoError
             /\ IF job'[k] = NoJob
                  THEN /\ q'[k].status = "error"
                       /\ q'[k].fetchStatus = "idle"
                       /\ q'[k].error = ev'.got.error
                  ELSE /\ job'[k].phase = "wait"
                       /\ job'[k].error = ev'.got.error
                       /\ q'[k].fetchStatus = "fetching"
        /\ (/\ ev'.type = "retry" /\ ev'.who = k /\ job'[k] = NoJob) =>
             /\ job[k].error # NoError
             /\ q'[k].status = "error"
             /\ q'[k].fetchStatus = "idle"
             /\ q'[k].error = job[k].error
    ]_vars

\* both attempts of the games' fetch failed, the second on a malformed body
C13_Witness ==
  /\ ev.type = "respond"
  /\ ev.who = "games"
  /\ ev.got = Reject(Error(Str("Invalid API response format")))
  /\ job["games"] = NoJob
  /\ q["games"].status = "error"
  /\ q["games"].error = Error(Str("Invalid API response format"))
  /\ mounted["games"]

-----------------------------------------------------------------------------
(* Properties of the manual refresh *)

\* C14 (as amended): refetch() pressed while the first fetch of the key is in flight
\* (the entry has no data yet) joins that fetch: no request is issued.  Pressed
\* while a fetch is in flight and the entry holds data, it supersedes that fetch:
\* exactly one new request is issued and the request of the superseded fetch stays
\* on the network.  Pressed on an idle entry it issues exactly one request.  The
\* response of a superseded request changes neither the entry nor the fetch that
\* replaced it.
C14_RefetchJoinsOrSupersedes ==
  [][ /\ \A r \in Roles :
           (ev'.type = "refetch" /\ ev'.who = r) =>
              LET k == RoleKey(r)
              IN IF q[k].fetchStatus = "fetching" /\ q[k].data = Undefined
                   THEN /\ ev'.issued = {}
                        /\ zombies' = zombies
                        /\ q'[k] = q[k]
                   ELSE /\ Cardinality(ev'.issued) = 1
                        /\ q'[k].fetchStatus = "fetching"
                        /\ job'[k].phase = "net"
                        /\ job'[k].req \in ev'.issued
                        /\ (q[k].fetchStatus = "fetching" /\ job[k].phase = "net") =>
                              \E z \in zombies' : z.req = job[k].req
      /\ ev'.type = "zombie" => (q' = q /\ job' = job)
    ]_vars

\* the games' list is refreshed while a fetch of the games is on the network
C14_Witness ==
  /\ scn.screen = "games"
  /\ ev.type = "refetch"
  /\ ev.issued # {}
  /\ zombies # {}
  /\ job["games"].phase = "net"

\* C14 as stated: a refetch pressed while a fetch of the key is in flight starts
\* no network call
C14_Original ==
  [][ \A r \in Roles :
        (ev'.type = "refetch" /\ ev'.who = r /\ q[RoleKey(r)].fetchStatus = "fetching") =>
           ev'.issued = {}
    ]_vars

\* C15 as stated: when the application returns to the foreground or the device
\* comes back online, every observed key whose entry is older than staleTime is
\* fetched again
C15_Original ==
  [][ \A r \in ActiveRoles :
        (/\ ev'.type \in {"foreground", "online"}
         /\ mounted[RoleScreen(r)]
         /\ opt[r]
         /\ q[RoleKey(r)].data # Undefined
         /\ q[RoleKey(r)].fetchStatus = "idle"
         /\ isStale(q[RoleKey(r)])) =>
           q'[RoleKey(r)].fetchStatus = "fetching"
    ]_vars

-----------------------------------------------------------------------------
(* Properties of the API service *)

C17_Original ==
  (/\ call.op = "apiGet"
   /\ call.result # Pending
   /\ call.response # NetworkFailure
   /\ ok(call.response)
   /\ call.response.body \notin {Null, InvalidJSON}
   /\ Get(call.response.body, "success") \notin {Bool(TRUE), Undefined}
   /\ ~(/\ Get(call.response.body, "success") = Bool(FALSE)
        /\ Get(call.response.body, "error") \notin {Undefined, Null, Str("")})) =>
     call.result = Reject(Error(Str("Invalid API response format")))

\* C18 (as amended): two rules interpret the body of an ok response.  Every
\* endpoint rejects an error envelope (success = false beside an error) with the
\* envelope's message.  Otherwise the paginated endpoints fetchNews and
\* fetchTeamSchedule return the whole body, whatever its success field, and every
\* other endpoint returns body.data for success = true, the body for a missing
\* success field, and rejects any other body as malformed.
C18_TwoRules ==
  (/\ call.op = "apiGet"
   /\ call.result # Pending
   /\ call.response # NetworkFailure
   /\ ok(call.response)
   /\ call.response.body \notin {Null, InvalidJSON}) =>
     LET body == call.response.body
         success == Get(body, "success")
         error == Get(body, "error")
         message == Get(error, "message")
     IN IF success = Bool(FALSE) /\ error \notin {Undefined, Null, Str("")}
          THEN call.result =
                 Reject(Error(IF message \in {Undefined, Null, Str("")}
                                THEN Str("API error") ELSE message))
        ELSE IF call.fn \in {"fetchNews", "fetchTeamSchedule"}
          THEN call.result = Resolve(body)
        ELSE IF success = Bool(TRUE) THEN call.result = Resolve(Get(body, "data"))
        ELSE IF success = Undefined THEN call.result = Resolve(body)
        ELSE call.result = Reject(Error(Str("Invalid API response format")))

\* fetchNews got a success envelope and returned all of it
C18_Witness ==
  /\ call.op = "apiGet"
  /\ call.fn = "fetchNews"
  /\ call.response # NetworkFailure
  /\ ok(call.response)
  /\ call.response.body \notin {Null, InvalidJSON}
  /\ Get(call.response.body, "success") = Bool(TRUE)
  /\ Get(call.response.body, "data") = [v |-> "v1"]
  /\ call.result = Resolve(call.response.body)

\* C18 as stated: for every endpoint the value returned for an ok response is the
\* one parseResponse gives for it
C18_Original ==
  (/\ call.op = "apiGet"
   /\ call.result # Pending
   /\ call.response # NetworkFailure
   /\ ok(call.response)) =>
     call.result = parseResponse(call.response)

\* C19 (as amended): a response whose status is outside 2xx always makes the
\* request fail with a plain Error, whatever the endpoint and the body.  For
\* status 429 the message is the fixed text 'Too many requests, please try again
\* later', with neither the status code nor the status text; for every other
\* status the message is `HTTP <status>: <statusText>`.  The two differ in
\* nothing but the message.
C19_HttpFailures ==
  (/\ call.op = "apiGet"
   /\ call.result # Pending
   /\ call.response # NetworkFailure
   /\ call.response.status \notin 200..299) =>
     /\ ~call.result.ok
     /\ call.result.data = Undefined
     /\ DOMAIN call.result.error = {"name", "message"}
     /\ call.result.error.name = "Error"
     /\ call.result.error.message =
          IF call.response.status = 429
            THEN Str("Too many requests, please try again later")
            ELSE [template |-> "HTTP ${status}: ${statusText}",
                  status |-> call.response.status,
                  statusText |-> call.response.statusText]

\* a request answered with 429 has failed
C19_Witness ==
  /\ call.op = "apiGet"
  /\ call.response # NetworkFailure
  /\ call.response.status = 429
  /\ call.result = Reject(Error(Str("Too many requests, please try again later")))

\* C19 as stated: the error of every response outside 2xx carries the status code
\* and the status text
C19_Original ==
  (/\ call.op = "apiGet"
   /\ call.result # Pending
   /\ call.response # NetworkFailure
   /\ call.response.status \notin 200..299) =>
     /\ ~call.result.ok
     /\ call.result.error.message =
          HttpMessage(call.response.status, call.response.statusText)

\* C20: for every calendar date D, formatDateForAPI(D) is the eight digits
\* YYYYMMDD of the calendar day before D, which is the US Eastern date at 00:00
\* UTC+8 of D under standard time and under daylight time alike, across month
\* and year boundaries; 2026-01-15 gives 20260114.
C20_DateToken ==
  (call.op = "formatDateForAPI" /\ call.result # Pending) =>
    LET y == call.date.year
        m == call.date.month + 1
        d == call.date.day
        expected == IF d > 1 THEN y * 10000 + m * 100 + (d - 1)
                    ELSE IF m > 1 THEN y * 10000 + (m - 1) * 100 + DaysInMonth(y, m - 1)
                    ELSE (y - 1) * 10000 + 1231
    IN /\ DOMAIN call.result = {"s"}
       /\ Len(call.result.s) = 8
       /\ ToNumber(call.result.s) = expected
       /\ (y = 2026 /\ m = 1 /\ d = 15) =>
            call.result = Str(<<"2", "0", "2", "6", "0", "1", "1", "4">>)

\* the token of 1 January 2026, taken under standard time across the year's end
C20_Witness ==
  /\ call.op = "formatDateForAPI"
  /\ call.date = [year |-> 2026, month |-> 0, day |-> 1]
  /\ call.result = Str(<<"2", "0", "2", "5", "1", "2", "3", "1">>)

-----------------------------------------------------------------------------
(* Properties of the pagination call sites *)

\* C21: both shapes of pagination metadata reduce to one pair.  For the news feed
\* there is a next page, with token nextPage, exactly when meta.pagination.hasMore
\* is true; for the team schedule there is a next page, with token page + 1,
\* exactly when meta.pagination.page < meta.pagination.pages; otherwise there is
\* no next page.
C21_NextToken ==
  (/\ call.op = "getNextPageParam"
   /\ call.result # Pending
   /\ "meta" \in DOMAIN call.lastPage
   /\ "pagination" \in DOMAIN call.lastPage.meta
   /\ call.lastPage.meta.pagination # Null) =>
     LET pagination == call.lastPage.meta.pagination
     IN IF call.fn = "fetchNews"
          THEN call.result =
                 IF pagination.hasMore = Bool(TRUE) THEN pagination.nextPage ELSE Undefined
          ELSE call.result =
                 IF pagination.page.n < pagination.pages.n
                   THEN Num(pagination.page.n + 1) ELSE Undefined

\* the schedule's page 2 of 3 names page 3 as the next
C21_Witness ==
  /\ call.op = "getNextPageParam"
  /\ call.fn = "fetchTeamSchedule"
  /\ OptionalGet(OptionalGet(call.lastPage, "meta"), "pagination") =
       [page |-> Num(2), pages |-> Num(3)]
  /\ call.result = Num(3)

\* C27 as stated: at both call sites a page that carries no meta.pagination object
\* is the last page: the callback produces no next token and raises no error
C27_Original ==
  (/\ call.op = "getNextPageParam"
   /\ call.result # Pending
   /\ OptionalGet(OptionalGet(call.lastPage, "meta"), "pagination") \in {Undefined, Null}) =>
     call.result = Undefined

\* C25: team schedule pagination terminates.  While the server answers page p
\* with meta.pagination = {page: p, pages: P} for one P, a press of load-more
\* requests the page after the last page of the cache, never a page beyond P,
\* and never a page whose request is already in flight (each page is fetched
\* exactly once); when P pages are in the cache hasNextPage is false.
C25_Original ==
  [][ LET data == q[scn.dKey].data
          pages == data.pages
          P == pages[1].meta.pagination.pages.n
          fixed == \A i \in 1..Len(pages) :
                     pages[i].meta.pagination = [page |-> Num(i), pages |-> Num(P)]
      IN (/\ scn.dFn = "fetchTeamSchedule"
          /\ ev'.type = "loadMore"
          /\ presses' = presses + 1
          /\ data # Undefined
          /\ fixed) =>
            /\ \A req \in ev'.issued :
                 /\ req.page.n = Len(pages) + 1
                 /\ req.page.n <= P
                 /\ ~(job[scn.dKey] # NoJob /\ job[scn.dKey].req = req)
            /\ Len(pages) = P => ~hasNextPage(scn.dFn, data)
    ]_vars

\* C26: every started fetch settles.  Provided each network attempt returns, a
\* key that is fetching is eventually idle in success or in error, and a fetch
\* never has more failed attempts behind it than the configured retry count, so
\* it has at most retry + 1 attempts.
C26_Settles ==
  /\ [](\A k \in Keys : job[k] # NoJob => job[k].fails <= retry)
  /\ \A k \in {"games", "news"} :
       (q[k].fetchStatus = "fetching") ~>
         (q[k].fetchStatus = "idle" /\ q[k].status \in {"success", "error"})

\* the second attempt of the first fetch of the games has failed: the key has
\* left loading in error
C26_Witness ==
  /\ ev.type = "respond"
  /\ ev.who = "games"
  /\ ~ev.got.ok
  /\ q["games"].fetchStatus = "idle"
  /\ q["games"].status = "error"
  /\ q["games"].data = Undefined
  /\ job["games"] = NoJob

\* C24: the status check precedes the parsing of the envelope.  A response whose
\* status is outside 2xx never yields a payload: the request fails, its outcome
\* is the one of the same response with any other body (a well-formed success
\* envelope, an error envelope, null or text that is not JSON), and the body of
\* the response is never read.
C24_StatusBeforeBody ==
  (/\ call.op = "apiGet"
   /\ call.result # Pending
   /\ call.response # NetworkFailure
   /\ ~ok(call.response)) =>
     /\ ~call.result.ok
     /\ call.result.data = Undefined
     /\ ~call.bodyUsed
     /\ \A body \in Bodies :
          call.result = apiGet(call.fn, [call.response EXCEPT !.body = body])

\* a 500 answered with a well-formed success envelope has failed
C24_Witness ==
  /\ call.op = "apiGet"
  /\ call.response # NetworkFailure
  /\ call.response.status = 500
  /\ call.response.body =
       [timestamp |-> Num(1), success |-> Bool(TRUE), data |-> [v |-> "v1"]]
  /\ call.result # Pending
  /\ ~call.result.ok
  /\ ~call.bodyUsed

-----------------------------------------------------------------------------
(* Properties of the screens' hooks *)

\* C22: a query key determines its request.  Whatever two screens render over the
\* same cache (the game screen, the player performance card, the team screen, the
\* games of a day), two hooks with the same key call the same endpoint with the
\* same parameters.
C22_KeyDeterminesRequest ==
  (call.op = "render" /\ call.result # Pending) =>
    \A h \in call.result.first \cup call.result.second :
      \A g \in call.result.first \cup call.result.second :
        h.queryKey = g.queryKey => h.request = g.request

\* the game screen and the team screen both hold the key ('teamOverview', 'LAL')
C22_Witness ==
  /\ call.op = "render"
  /\ call.result # Pending
  /\ call.first.screen = "game"
  /\ call.second.screen = "team"
  /\ \E h \in call.result.first : \E g \in call.result.second :
        /\ h.queryKey = [name |-> "teamOverview", param |-> Str("LAL")]
        /\ g.queryKey = h.queryKey
        /\ h.enabled

\* the hook of that name in the first render
FirstHook(name) == CHOOSE h \in call.result.first : h.hook = name

\* C23: on the game detail screen the summary query and the pre-match overview
\* queries are never enabled together.  The summary is enabled only when game data
\* exists and gameStatus is 3, an overview only when game data exists and the
\* status is 1 or 6, and none of them while the game detail is undefined.
C23_ExclusiveGates ==
  (call.op = "render" /\ call.result # Pending /\ call.first.screen = "game") =>
    LET game == call.first.game
        status == Number(OptionalGet(game, "gameStatus"))
        overview == FirstHook("teamStatsAway").enabled \/ FirstHook("teamStatsHome").enabled
    IN /\ ~(FirstHook("gameSummary").enabled /\ overview)
       /\ FirstHook("gameSummary").enabled => (game # Undefined /\ status = Num(3))
       /\ overview => (game # Undefined /\ status \in {Num(1), Num(6)})

\* a postponed game: both overviews enabled, the summary not
C23_Witness ==
  /\ call.op = "render"
  /\ call.result # Pending
  /\ call.first.screen = "game"
  /\ call.first.game # Undefined
  /\ Get(call.first.game, "gameStatus") = Num(6)
  /\ FirstHook("teamStatsAway").enabled
  /\ FirstHook("teamStatsHome").enabled
  /\ ~FirstHook("gameSummary").enabled

\* C28: whenever the away or home overview query of the game screen is enabled,
\* the abbreviation passed to fetchTeamOverview is a non-empty string.
C28_Original ==
  (call.op = "render" /\ call.result # Pending /\ call.first.screen = "game") =>
    \A h \in call.result.first :
      (h.request.fn = "fetchTeamOverview" /\ h.enabled) =>
        h.request.arg \notin {Str(""), Undefined, Null}

-----------------------------------------------------------------------------
(* Properties of the games feed *)

====
